---------------------------- MODULE Spec2Model ----------------------------
(***************************************************************************)
(* Tabu search for employee scheduling (src/python.py).                    *)
(*                                                                         *)
(* The state is one EmployeeScheduling object (its four configuration      *)
(* fields, self.schedule and self.tabu_list) together with the locals of   *)
(* one call of tabu_search.  A behaviour is main(): the constructor, then  *)
(* tabu_search, one step per pass of its loop.                             *)
(*                                                                         *)
(* Matrices are functions [0..E-1 -> [0..D-1 -> {0,1}]], indexed from 0    *)
(* as in the source.  A move is the tuple <<employee, day1, day2>>.        *)
(*                                                                         *)
(* Costs.  calculate_cost divides by num_days (line 37), so a cost is a    *)
(* rational with denominator num_days.  The model holds every cost in      *)
(* units of 1/num_days: the integer num_days * cost.  For num_days > 0     *)
(* this keeps every comparison and every test against zero of the exact    *)
(* value.  The source evaluates the same expression in binary64; the two   *)
(* agree whenever E*Q/D is a dyadic rational (D in {1, 2, 4}, or D         *)
(* dividing E*Q).  Otherwise binary64 rounding may order two schedules of  *)
(* equal exact cost either way, which the model does not reproduce.        *)
(*                                                                         *)
(* Locals.  Where the source assigns a local variable and reads it several  *)
(* times, the model binds it once, as the x of {F(x) : x \in {v}}, and      *)
(* takes the one element of that set.                                      *)
(*                                                                         *)
(* Optional values (best_neighbor, best_move are None before a candidate   *)
(* is chosen) are <<>> for None and <<v>> for the value v.                 *)
(***************************************************************************)
EXTENDS Integers, Sequences, FiniteSets, TLC

\* Bounds of the search model.
MaxE == 2
MaxD == 4
MaxCells == 8
MaxC == 2
MaxIter == 12

\* Bounds of the models that apply one pure method to arbitrary arguments.
ArgMaxE == 2
ArgMaxD == 3

\* Bounds of the model of get_neighbors: cells of its argument, entries of the
\* tabu memory it reads.
ArgMaxCells == 6
ArgMaxTabu == 2

\* deque(maxlen=10), line 15.
TabuMaxLen == 10

\* float('inf'), line 78: no cost is negative, so -1 is free to stand for it.
Inf == -1

VARIABLES
    num_employees,              \* self.num_employees
    num_days,                   \* self.num_days
    work_days_per_employee,     \* self.work_days_per_employee
    max_consecutive_days_off,   \* self.max_consecutive_days_off
    schedule,                   \* self.schedule
    tabu_list,                  \* self.tabu_list
    pc,                         \* where main() is
    raised,                     \* <<>>, or <<exception, method that raised it>>
    max_iterations,             \* tabu_search's argument
    iteration,                  \* passes of the loop completed without break
    current_schedule,
    current_cost,
    best_schedule,
    best_cost,
    neighbors,                  \* locals of the last pass of the loop
    best_neighbor,
    best_neighbor_cost,
    best_move,
    appended,                   \* history: every move appended to tabu_list
    visited,                    \* history: every schedule that has been current
    arg,                        \* argument of a pure method applied on its own
    ret                         \* and its result

vars == <<num_employees, num_days, work_days_per_employee,
          max_consecutive_days_off, schedule, tabu_list, pc, raised,
          max_iterations, iteration, current_schedule, current_cost,
          best_schedule, best_cost, neighbors, best_neighbor,
          best_neighbor_cost, best_move, appended, visited, arg, ret>>

config == <<num_employees, num_days, work_days_per_employee,
            max_consecutive_days_off>>

search_locals == <<max_iterations, iteration, current_schedule, current_cost,
                   best_schedule, best_cost, neighbors, best_neighbor,
                   best_neighbor_cost, best_move>>

---------------------------------------------------------------------------
\* Helpers.

Abs(x) == IF x < 0 THEN 0 - x ELSE x

Max(a, b) == IF a < b THEN b ELSE a

Min(a, b) == IF a < b THEN a ELSE b

\* range(n)
Range(n) == 0 .. (n - 1)

\* f[0] + ... + f[n-1]
RECURSIVE SumTo(_, _)
SumTo(f, n) == IF n <= 0 THEN 0 ELSE SumTo(f, n - 1) + f[n - 1]

\* np.sum(schedule[employee])
RowSum(s, employee) == SumTo(s[employee], num_days)

\* np.sum(schedule, axis=0)[day]
ColSum(s, day) == SumTo([e \in Range(num_employees) |-> s[e][day]], num_employees)

\* np.zeros((num_employees, num_days), dtype=int)
Zeros == [e \in Range(num_employees) |-> [d \in Range(num_days) |-> 0]]

\* np.zeros raises ValueError on a negative dimension.
ZerosRaises == num_employees < 0 \/ num_days < 0

\* A mutant of Lt: float('inf') compared as the number that stands for it.
LtAsNumbers(a, b) == a < b

\* Comparison of costs where either side may be float('inf').
Lt(a, b) == IF a = Inf THEN FALSE ELSE IF b = Inf THEN TRUE ELSE a < b

---------------------------------------------------------------------------
\* initialize_schedule

\* A mutant of Sample: sampling with replacement (random.choices).
SampleWithReplacement(n, k) ==
    {W \in SUBSET Range(n) : Cardinality(W) <= k /\ (k > 0 => W # {})}

\* random.sample(range(n), k): the sets of k distinct indices it may return.
Sample(n, k) == {W \in SUBSET Range(n) : Cardinality(W) = k}

\* A mutant of SampleRaises: a sample larger than the population is accepted.
SampleRaisesOnNegative(n, k) == k < 0

\* random.sample raises ValueError when k is negative or exceeds the population.
SampleRaises(n, k) == k < 0 \/ k > n

\* The schedule after initialize_schedule drew work_days[e] for employee e.
initialize_schedule(work_days) ==
    [e \in Range(num_employees) |->
        [d \in Range(num_days) |-> IF d \in work_days[e] THEN 1 ELSE Zeros[e][d]]]

---------------------------------------------------------------------------
\* calculate_cost

\* A mutant of OverCap: the cap itself already counts as too long.
OverCapInclusive(consecutive_off) == consecutive_off >= max_consecutive_days_off

\* consecutive_off > self.max_consecutive_days_off, line 31
OverCap(consecutive_off) == consecutive_off > max_consecutive_days_off

\* A mutant of ScanDays: the counter restarts at 0 after a penalised day.
RECURSIVE ScanDaysResetting(_, _, _, _)
ScanDaysResetting(row, day, consecutive_off, cost) ==
    IF day >= num_days THEN cost
    ELSE IF row[day] = 0
         THEN IF OverCap(consecutive_off + 1)
              THEN ScanDaysResetting(row, day + 1, 0, cost + 10)
              ELSE ScanDaysResetting(row, day + 1, consecutive_off + 1, cost)
         ELSE ScanDaysResetting(row, day + 1, 0, cost)

\* Lines 28-34 for one employee's row, from `day` on: the counter of
\* consecutive days off and the penalty collected so far.
RECURSIVE ScanDays(_, _, _, _)
ScanDays(row, day, consecutive_off, cost) ==
    IF day >= num_days THEN cost
    ELSE IF row[day] = 0
         THEN ScanDays(row, day + 1, consecutive_off + 1,
                       IF OverCap(consecutive_off + 1) THEN cost + 10 ELSE cost)
         ELSE ScanDays(row, day + 1, 0, cost)

\* Lines 26-34: 10 for every day off beyond the cap.
ConsecutiveOffPenalty(s) ==
    SumTo([e \in Range(num_employees) |-> ScanDays(s[e], 0, 0, 0)], num_employees)

\* Lines 36-39, in units of 1/num_days:
\* num_days * abs(daily_workload[day] - E*Q/num_days) * 2, summed over the days.
WorkloadPenalty(s) ==
    SumTo([d \in Range(num_days) |->
              Abs(num_days * ColSum(s, d)
                  - num_employees * work_days_per_employee) * 2],
          num_days)

\* Lines 41-44: 20 for every work day an employee is off the quota.
QuotaPenalty(s) ==
    SumTo([e \in Range(num_employees) |->
              IF RowSum(s, e) # work_days_per_employee
              THEN Abs(RowSum(s, e) - work_days_per_employee) * 20
              ELSE 0],
          num_employees)

\* Line 37 raises ZeroDivisionError when num_days = 0.
CostRaises == num_days = 0

\* calculate_cost(schedule), in units of 1/num_days.
calculate_cost(s) ==
    num_days * ConsecutiveOffPenalty(s) + WorkloadPenalty(s)
        + num_days * QuotaPenalty(s)

---------------------------------------------------------------------------
\* get_neighbors

\* A mutant of IsTabu: a recorded move forbids its reverse-ordered move too.
IsTabuEitherOrder(move) ==
    \E i \in 1 .. Len(tabu_list) :
        \/ tabu_list[i] = move
        \/ tabu_list[i] = <<move[1], move[3], move[2]>>

\* A mutant of IsTabu: only the most recently recorded move is forbidden.
IsTabuLastOnly(move) ==
    Len(tabu_list) > 0 /\ tabu_list[Len(tabu_list)] = move

\* move in self.tabu_list
IsTabu(move) == \E i \in 1 .. Len(tabu_list) : tabu_list[i] = move

\* The i-th triple (employee, day1, day2) of the three nested loops, lines 51-53.
MoveAt(i) ==
    << (i - 1) \div (num_days * num_days),
       ((i - 1) \div num_days) % num_days,
       (i - 1) % num_days >>

\* A mutant of Differs: any two distinct days may be exchanged.
DiffersDaysOnly(s, move) == move[2] # move[3]

\* day1 != day2 and schedule[employee][day1] != schedule[employee][day2], line 54
Differs(s, move) ==
    /\ move[2] # move[3]
    /\ s[move[1]][move[2]] # s[move[1]][move[3]]

\* A mutant of Swap: the second cell is written from the already overwritten first.
SwapLosingCell(s, move) ==
    [s EXCEPT ![move[1]] = [@ EXCEPT ![move[2]] = s[move[1]][move[3]],
                                     ![move[3]] = s[move[1]][move[3]]]]

\* Lines 55-57: a copy of s with the two cells exchanged.
Swap(s, move) ==
    [s EXCEPT ![move[1]] = [@ EXCEPT ![move[2]] = s[move[1]][move[3]],
                                     ![move[3]] = s[move[1]][move[2]]]]

\* The moves get_neighbors keeps, in the order of its loops.
Moves(s) ==
    SelectSeq([i \in 1 .. (num_employees * num_days * num_days) |-> MoveAt(i)],
              LAMBDA move : Differs(s, move) /\ ~IsTabu(move))

\* get_neighbors(schedule): the list of (new_schedule, move).
get_neighbors(s) ==
    CHOOSE ns \in {[i \in 1 .. Len(moves) |-> <<Swap(s, moves[i]), moves[i]>>] :
                     moves \in {Moves(s)}} : TRUE

---------------------------------------------------------------------------
\* tabu_search

\* A mutant of deque_append: a plain list, nothing is evicted.
list_append(q, move) == Append(q, move)

\* self.tabu_list.append(move) on a deque(maxlen=10): the oldest entry leaves a
\* full deque.
deque_append(q, move) ==
    IF Len(q) >= TabuMaxLen THEN Append(Tail(q), move) ELSE Append(q, move)

\* A mutant of InRange: the loop runs once more than its budget.
InRangeInclusive(i, n) == i <= n

\* for iteration in range(max_iterations), line 72: whether pass number i
\* (counted from 0) is run.
InRange(i, n) == i < n

\* A mutant of Accepts: the plain minimum, no comparison with best_cost.
AcceptsMinimumOnly(neighbor_cost, bn_cost, b_cost) == Lt(neighbor_cost, bn_cost)

\* A mutant of Accepts: a candidate that ties with best_cost is accepted too.
AcceptsAtMostBest(neighbor_cost, bn_cost, b_cost) ==
    Lt(neighbor_cost, bn_cost) \/ neighbor_cost <= b_cost

\* neighbor_cost < best_neighbor_cost or neighbor_cost < best_cost, line 85
Accepts(neighbor_cost, bn_cost, b_cost) ==
    Lt(neighbor_cost, bn_cost) \/ Lt(neighbor_cost, b_cost)

\* Lines 83-88 for one candidate: sel is
\* <<best_neighbor_cost, best_neighbor, best_move>> before and after.
Consider(neighbor, b_cost, sel) ==
    CHOOSE next \in {IF Accepts(neighbor_cost, sel[1], b_cost)
                     THEN <<neighbor_cost, <<neighbor[1]>>, <<neighbor[2]>>>>
                     ELSE sel :
                     neighbor_cost \in {calculate_cost(neighbor[1])}} : TRUE

\* Lines 82-88 from the i-th candidate on.
RECURSIVE SelectFrom(_, _, _, _)
SelectFrom(ns, i, b_cost, sel) ==
    IF i > Len(ns) THEN sel
    ELSE CHOOSE last \in {SelectFrom(ns, i + 1, b_cost, next) :
                          next \in {Consider(ns[i], b_cost, sel)}} : TRUE

\* Lines 78-88: the selection of one pass.
Select(ns, b_cost) == SelectFrom(ns, 1, b_cost, <<Inf, <<>>, <<>>>>)

\* A mutant of Improves: a tie with the best-known cost replaces the best.
ImprovesOrTies(cost, b_cost) == cost <= b_cost

\* current_cost < best_cost, line 98
Improves(cost, b_cost) == cost < b_cost

---------------------------------------------------------------------------
\* The inputs of main().

Employees == -1 .. MaxE

Days == -1 .. MaxD

Quotas == 0 .. (MaxD + 1)

Caps == 0 .. MaxC

Budgets == {1, 2, MaxIter}

Init ==
    /\ num_employees \in Employees
    /\ num_days \in Days
    /\ num_employees * num_days <= MaxCells
    /\ work_days_per_employee \in Quotas
    /\ max_consecutive_days_off \in Caps
    /\ schedule = <<>>
    /\ tabu_list = <<>>
    /\ pc = "new"
    /\ raised = <<>>
    /\ max_iterations = 0
    /\ iteration = 0
    /\ current_schedule = <<>>
    /\ current_cost = 0
    /\ best_schedule = <<>>
    /\ best_cost = 0
    /\ neighbors = <<>>
    /\ best_neighbor = <<>>
    /\ best_neighbor_cost = Inf
    /\ best_move = <<>>
    /\ appended = <<>>
    /\ visited = <<>>
    /\ arg = <<>>
    /\ ret = <<>>

\* EmployeeScheduling(...), lines 6-21.
Construct ==
    /\ pc = "new"
    /\ \/ /\ ZerosRaises
          /\ pc' = "raised"
          /\ raised' = <<"ValueError", "__init__">>
          /\ UNCHANGED <<schedule, tabu_list>>
       \/ /\ ~ZerosRaises
          /\ num_employees >= 1
          /\ SampleRaises(num_days, work_days_per_employee)
          /\ pc' = "raised"
          /\ raised' = <<"ValueError", "initialize_schedule">>
          /\ UNCHANGED <<schedule, tabu_list>>
       \/ /\ ~ZerosRaises
          /\ ~(num_employees >= 1 /\ SampleRaises(num_days, work_days_per_employee))
          /\ \E work_days \in [Range(num_employees) ->
                                 Sample(num_days, work_days_per_employee)] :
                schedule' = initialize_schedule(work_days)
          /\ tabu_list' = <<>>
          /\ pc' = "constructed"
          /\ UNCHANGED raised
    /\ UNCHANGED <<config, search_locals, appended, visited, arg, ret>>

\* tabu_search(max_iterations), lines 66-70, up to the head of the loop.
TabuSearch(mi) ==
    /\ pc = "constructed"
    /\ \/ /\ CostRaises
          /\ pc' = "raised"
          /\ raised' = <<"ZeroDivisionError", "calculate_cost">>
          /\ UNCHANGED <<max_iterations, iteration, current_schedule,
                         current_cost, best_schedule, best_cost, visited>>
       \/ /\ ~CostRaises
          /\ max_iterations' = mi
          /\ iteration' = 0
          /\ current_schedule' = schedule
          /\ current_cost' = calculate_cost(schedule)
          /\ best_schedule' = schedule
          /\ best_cost' = calculate_cost(schedule)
          /\ visited' = <<schedule>>
          /\ pc' = IF InRange(0, mi) THEN "loop" ELSE "exit"
          /\ UNCHANGED raised
    /\ UNCHANGED <<config, schedule, tabu_list, neighbors, best_neighbor,
                   best_neighbor_cost, best_move, appended, arg, ret>>

\* One pass of the loop, lines 72-100.  ns is the list get_neighbors returned
\* and sel the outcome of the selection, each computed once.
Iterate ==
    /\ pc = "loop"
    /\ \E ns \in {get_neighbors(current_schedule)} :
       \E sel \in {Select(ns, best_cost)} :
          /\ neighbors' = ns
          /\ \/ /\ ns = <<>>                        \* line 75: break
                /\ pc' = "exit"
                /\ UNCHANGED <<best_neighbor_cost, best_neighbor, best_move,
                               current_schedule, current_cost, tabu_list,
                               appended, visited, best_schedule, best_cost,
                               iteration>>
             \/ /\ ns # <<>>
                /\ best_neighbor_cost' = sel[1]
                /\ best_neighbor' = sel[2]
                /\ best_move' = sel[3]
                /\ IF sel[2] = <<>>                 \* line 90: break
                   THEN /\ pc' = "exit"
                        /\ UNCHANGED <<current_schedule, current_cost,
                                       tabu_list, appended, visited,
                                       best_schedule, best_cost, iteration>>
                   ELSE /\ current_schedule' = sel[2][1]
                        /\ current_cost' = sel[1]
                        /\ tabu_list' = deque_append(tabu_list, sel[3][1])
                        /\ appended' = Append(appended, sel[3][1])
                        /\ visited' = Append(visited, sel[2][1])
                        /\ IF Improves(sel[1], best_cost)
                           THEN /\ best_schedule' = sel[2][1]
                                /\ best_cost' = sel[1]
                           ELSE UNCHANGED <<best_schedule, best_cost>>
                        /\ iteration' = iteration + 1
                        /\ pc' = IF InRange(iteration + 1, max_iterations)
                                 THEN "loop" ELSE "exit"
    /\ UNCHANGED <<config, schedule, raised, max_iterations, arg, ret>>

\* Lines 102-103.
Return ==
    /\ pc = "exit"
    /\ schedule' = best_schedule
    /\ ret' = <<best_schedule, best_cost>>
    /\ pc' = "returned"
    /\ UNCHANGED <<config, tabu_list, raised, search_locals, appended, visited,
                   arg>>

Next ==
    \/ Construct
    \/ \E mi \in Budgets : TabuSearch(mi)
    \/ Iterate
    \/ Return

Spec == Init /\ [][Next]_vars

\* main() is one thread running to completion: a step that can be taken is taken.
FairSpec == Spec /\ WF_vars(Next)

---------------------------------------------------------------------------
\* calculate_cost applied on its own to any binary matrix of the declared shape.

ArgInit ==
    /\ num_employees \in 1 .. ArgMaxE
    /\ num_days \in 1 .. ArgMaxD
    /\ work_days_per_employee \in 0 .. num_days
    /\ max_consecutive_days_off \in Caps
    /\ schedule = <<>>
    /\ tabu_list = <<>>
    /\ raised = <<>>
    /\ max_iterations = 0
    /\ iteration = 0
    /\ current_schedule = <<>>
    /\ current_cost = 0
    /\ best_schedule = <<>>
    /\ best_cost = 0
    /\ neighbors = <<>>
    /\ best_neighbor = <<>>
    /\ best_neighbor_cost = Inf
    /\ best_move = <<>>
    /\ appended = <<>>
    /\ visited = <<>>
    /\ ret = <<>>

CostInit ==
    /\ ArgInit
    /\ pc = "call calculate_cost"
    /\ arg \in [Range(num_employees) -> [Range(num_days) -> {0, 1}]]

CallCalculateCost ==
    /\ pc = "call calculate_cost"
    /\ ret' = calculate_cost(arg)
    /\ pc' = "calculate_cost returned"
    /\ UNCHANGED <<config, schedule, tabu_list, raised, search_locals,
                   appended, visited, arg>>

CostSpec == CostInit /\ [][CallCalculateCost]_vars

\* get_neighbors applied on its own: an object with any configuration and any
\* tabu memory of triples (employee, day1, day2), and any 0/1 matrix of its
\* shape as argument.  get_neighbors reads neither the cap nor the quota: the
\* cap is 0, and the quota is the number of work days of the first row, so
\* that the rows all sum to the quota exactly when their sums are equal.
AllMoves == Range(num_employees) \X Range(num_days) \X Range(num_days)

SeqsUpTo(S, n) == UNION {[1 .. k -> S] : k \in 0 .. n}

NeighborsInit ==
    /\ num_employees \in 1 .. ArgMaxE
    /\ num_days \in 1 .. ArgMaxD
    /\ num_employees * num_days <= ArgMaxCells
    /\ arg \in [Range(num_employees) -> [Range(num_days) -> {0, 1}]]
    /\ work_days_per_employee = RowSum(arg, 0)
    /\ max_consecutive_days_off = 0
    /\ schedule = <<>>
    /\ tabu_list \in SeqsUpTo(AllMoves, ArgMaxTabu)
    /\ raised = <<>>
    /\ max_iterations = 0
    /\ iteration = 0
    /\ current_schedule = <<>>
    /\ current_cost = 0
    /\ best_schedule = <<>>
    /\ best_cost = 0
    /\ neighbors = <<>>
    /\ best_neighbor = <<>>
    /\ best_neighbor_cost = Inf
    /\ best_move = <<>>
    /\ appended = <<>>
    /\ visited = <<>>
    /\ ret = <<>>
    /\ pc = "call get_neighbors"

CallGetNeighbors ==
    /\ pc = "call get_neighbors"
    /\ ret' = get_neighbors(arg)
    /\ pc' = "get_neighbors returned"
    /\ UNCHANGED <<config, schedule, tabu_list, raised, search_locals,
                   appended, visited, arg>>

NeighborsSpec == NeighborsInit /\ [][CallGetNeighbors]_vars

---------------------------------------------------------------------------
\* What the properties speak of, stated without the operators of the model.

\* A configuration the input contract allows.
ValidConfig ==
    /\ num_employees >= 1
    /\ num_days >= 1
    /\ 0 <= work_days_per_employee
    /\ work_days_per_employee <= num_days

IsBinaryMatrix(s) ==
    /\ DOMAIN s = Range(num_employees)
    /\ \A e \in Range(num_employees) :
          /\ DOMAIN s[e] = Range(num_days)
          /\ \A d \in Range(num_days) : s[e][d] \in {0, 1}

\* The days employee e works in s.
WorkDaysOf(s, e) == {d \in Range(num_days) : s[e][d] = 1}

\* The employees at work on day d in s.
StaffOf(s, d) == {e \in Range(num_employees) : s[e][d] = 1}

\* Every row of s sums to the quota.
QuotaKept(s) ==
    \A e \in Range(num_employees) :
        Cardinality(WorkDaysOf(s, e)) = work_days_per_employee

\* No employee has a run of consecutive days off longer than the cap.
NoLongOffRun(s) ==
    \A e \in Range(num_employees) : \A a, b \in Range(num_days) :
        (a <= b /\ \A d \in a .. b : s[e][d] = 0)
            => b - a + 1 <= max_consecutive_days_off

\* Every day's workload is E*Q/D exactly.
Balanced(s) ==
    \A d \in Range(num_days) :
        num_days * Cardinality(StaffOf(s, d))
            = num_employees * work_days_per_employee

AllCells(s, v) ==
    /\ IsBinaryMatrix(s)
    /\ \A e \in Range(num_employees) : \A d \in Range(num_days) : s[e][d] = v

InSearch == pc \in {"loop", "exit", "returned"}

---------------------------------------------------------------------------
\* C1: for every configuration with E >= 1, D >= 1, 0 <= Q <= D and every
\* random choice, construction succeeds and the schedule initialize_schedule
\* built is an E x D matrix of 0/1 values whose every row sums to exactly Q.
C1_InitialRowSums ==
    ValidConfig =>
        /\ pc # "new" => raised = <<>>
        /\ pc = "constructed" => IsBinaryMatrix(schedule) /\ QuotaKept(schedule)

\* An initial schedule of two employees who drew different work days.
C1_Witness ==
    /\ pc = "constructed"
    /\ ValidConfig
    /\ num_employees = 2
    /\ 0 < work_days_per_employee
    /\ work_days_per_employee < num_days
    /\ schedule[0] # schedule[1]

\* C2: row sums are invariant under the search: every candidate get_neighbors
\* returned, the current schedule, the best schedule and the returned schedule
\* have every row summing to Q, and the quota term of their cost is 0.
C2_RowSumsKept ==
    (ValidConfig /\ InSearch) =>
        /\ \A i \in 1 .. Len(neighbors) : QuotaKept(neighbors[i][1])
        /\ QuotaKept(current_schedule)
        /\ QuotaKept(best_schedule)
        /\ QuotaPenalty(current_schedule) = 0
        /\ QuotaPenalty(best_schedule) = 0
        /\ pc = "returned" =>
              /\ ret[1] = best_schedule
              /\ schedule = best_schedule
              /\ QuotaKept(ret[1])
              /\ QuotaPenalty(ret[1]) = 0

\* A search that returned a schedule other than the initial one after several
\* passes.
C2_Witness ==
    /\ pc = "returned"
    /\ ValidConfig
    /\ iteration >= 2
    /\ num_employees = 2
    /\ neighbors # <<>>
    /\ ret[1] # current_schedule

\* C3: for every binary E x D matrix s, calculate_cost(s) = 0 if and only if
\* no employee has a run of days off longer than C, every day's workload is
\* E*Q/D exactly, and every row sums to Q.
C3_ZeroCostIff ==
    pc = "calculate_cost returned" =>
        (ret = 0 <=> (NoLongOffRun(arg) /\ Balanced(arg) /\ QuotaKept(arg)))

\* A matrix of cost zero that has both work days and days off.
C3_Witness ==
    /\ pc = "calculate_cost returned"
    /\ ret = 0
    /\ num_employees = 2
    /\ 0 < work_days_per_employee
    /\ work_days_per_employee < num_days

\* C4: the tabu memory never holds more than 10 moves; it holds the most
\* recently appended moves in the order they were appended; and when 10 further
\* moves have been appended after a move, that move is no longer tabu.
C4_TabuBounded ==
    /\ Len(tabu_list) <= TabuMaxLen
    /\ Len(tabu_list) = Min(Len(appended), TabuMaxLen)
    /\ tabu_list = SubSeq(appended, Len(appended) - Len(tabu_list) + 1,
                          Len(appended))
    /\ \A i \in 1 .. Len(appended) :
          Len(appended) = i + TabuMaxLen => ~IsTabu(appended[i])

\* The 11th insertion has happened and the first move appended is not tabu.
C4_Witness ==
    /\ Len(appended) = TabuMaxLen + 1
    /\ Len(tabu_list) = TabuMaxLen
    /\ ~IsTabu(appended[1])

\* C5: for a valid configuration tabu_search terminates; it runs at most
\* max_iterations passes, leaves the loop before the budget is used up only
\* when the neighborhood is empty, and returns (best_schedule, best_cost).
C5_Bounded ==
    ValidConfig =>
        /\ iteration <= max_iterations
        /\ pc = "loop" => iteration < max_iterations
        /\ (pc \in {"exit", "returned"} /\ iteration < max_iterations)
              => neighbors = <<>>
        /\ pc = "returned" => ret = <<best_schedule, best_cost>>

C5_Terminates ==
    /\ []C5_Bounded
    /\ (ValidConfig /\ pc = "new") ~> (pc = "returned")

\* A search that used up a budget of more than two passes.
C5_Witness ==
    /\ pc = "returned"
    /\ ValidConfig
    /\ max_iterations > 2
    /\ iteration = max_iterations

C7_NonPositiveRaisesAtInit ==
    (num_employees <= 0 \/ num_days <= 0) =>
        /\ pc \in {"new", "raised"}
        /\ pc = "raised" => raised[2] \in {"__init__", "initialize_schedule"}

\* C8: with Q = D (E >= 1, D >= 1) the initial schedule is all ones, its
\* neighborhood is empty, tabu_search leaves the loop in its first pass with
\* nothing appended to the tabu memory, and returns the all-ones schedule with
\* cost 0.
C8_FullQuota ==
    (num_employees >= 1 /\ num_days >= 1 /\ work_days_per_employee = num_days) =>
        /\ pc # "new" => (raised = <<>> /\ AllCells(schedule, 1))
        /\ InSearch =>
              /\ iteration = 0
              /\ tabu_list = <<>>
              /\ appended = <<>>
              /\ AllCells(current_schedule, 1)
              /\ AllCells(best_schedule, 1)
              /\ best_cost = 0
        /\ pc \in {"exit", "returned"} => (neighbors = <<>> /\ best_move = <<>>)
        /\ pc = "returned" => (AllCells(ret[1], 1) /\ ret[2] = 0)

\* The search returned for two employees working all of several days.
C8_Witness ==
    /\ pc = "returned"
    /\ num_employees = 2
    /\ num_days >= 2
    /\ work_days_per_employee = num_days
    /\ max_iterations > 1

\* C9: with Q = 0 (E >= 1, D >= 1) the initial schedule and every schedule
\* the search holds as current or best is all zeros; the workload and quota
\* terms are 0 and the cost is 10 * E * max(0, D - C), which is strictly
\* positive whenever C < D.  (Costs are held in units of 1/num_days.)
C9_ZeroQuota ==
    (num_employees >= 1 /\ num_days >= 1 /\ work_days_per_employee = 0) =>
        /\ pc # "new" => (raised = <<>> /\ AllCells(schedule, 0))
        /\ InSearch =>
              /\ AllCells(current_schedule, 0)
              /\ AllCells(best_schedule, 0)
              /\ WorkloadPenalty(best_schedule) = 0
              /\ QuotaPenalty(best_schedule) = 0
              /\ current_cost = best_cost
              /\ best_cost = num_days * (10 * num_employees
                                * Max(0, num_days - max_consecutive_days_off))
              /\ max_consecutive_days_off < num_days => best_cost > 0
        /\ pc = "returned" => (AllCells(ret[1], 0) /\ ret[2] = best_cost)

\* The search returned a positive cost for two employees who never work, with
\* a cap between 0 and the number of days.
C9_Witness ==
    /\ pc = "returned"
    /\ num_employees = 2
    /\ work_days_per_employee = 0
    /\ 0 < max_consecutive_days_off
    /\ max_consecutive_days_off < num_days
    /\ ret[2] > 0

\* The cost of the i-th candidate of the list ns.
CostAt(ns, i) == calculate_cost(ns[i][1])

\* The candidates of ns that cost strictly less than b, by index.
BelowBest(ns, b) == {i \in 1 .. Len(ns) : CostAt(ns, i) < b}

\* The first candidate of minimum cost.
FirstMinimum(ns) ==
    CHOOSE i \in 1 .. Len(ns) :
        \A j \in 1 .. Len(ns) :
            \/ CostAt(ns, i) < CostAt(ns, j)
            \/ (CostAt(ns, i) = CostAt(ns, j) /\ i <= j)

\* The candidate the rule names: the last one below the best-known cost b if
\* there is one, the first of minimum cost otherwise.
RuleIndex(ns, b) ==
    IF BelowBest(ns, b) = {}
    THEN FirstMinimum(ns)
    ELSE CHOOSE i \in BelowBest(ns, b) : \A j \in BelowBest(ns, b) : j <= i

\* C10: in a pass over a non-empty neighborhood, with the candidates in the
\* order of get_neighbors, the selected candidate is the first of minimum cost
\* if none costs strictly less than the best-known cost, and otherwise the last
\* one that costs strictly less than the best-known cost; current_cost is the
\* cost of the selected candidate.
C10_SelectionRule ==
    [][(pc = "loop" /\ neighbors' # <<>>) =>
          \E k \in {RuleIndex(neighbors', best_cost)} :
              /\ best_neighbor' = <<neighbors'[k][1]>>
              /\ best_move' = <<neighbors'[k][2]>>
              /\ best_neighbor_cost' = CostAt(neighbors', k)
              /\ current_schedule' = neighbors'[k][1]
              /\ current_cost' = CostAt(neighbors', k)]_vars

\* A pass has selected a candidate that is not of minimum cost: an earlier,
\* strictly cheaper candidate was overwritten by a later one below the
\* best-known cost.
C10_Witness ==
    /\ pc \in {"loop", "exit"}
    /\ best_move # <<>>
    /\ current_cost = best_neighbor_cost
    /\ \E i, j \in 1 .. Len(neighbors) :
          /\ i < j
          /\ neighbors[j][2] = best_move[1]
          /\ CostAt(neighbors, i) < CostAt(neighbors, j)

\* The costs of the candidates of ns, in the order of ns.
CostsOf(ns) == [i \in 1 .. Len(ns) |-> CostAt(ns, i)]

\* C11: a pass may select a candidate that is not of minimum cost among the
\* non-tabu neighbors, and it does so only in this way: whenever a candidate of
\* the pass costs strictly less than the selected one, that cheaper candidate
\* was evaluated earlier and the selected one costs strictly less than the
\* best-known cost the pass started with.
C11_LaterOverwritesCheaper ==
    [][(pc = "loop" /\ neighbors' # <<>> /\ best_move' # <<>>) =>
          \E costs \in {CostsOf(neighbors')} :
             \A k \in 1 .. Len(neighbors') :
                neighbors'[k][2] = best_move'[1] =>
                   \A i \in 1 .. Len(neighbors') :
                      costs[i] < costs[k] =>
                         (i < k /\ costs[k] < best_cost)]_vars

\* A pass on a 4-day instance has selected a candidate although an earlier one
\* of the same pass is strictly cheaper, and the selected one is the new best.
C11_Witness ==
    /\ pc \in {"loop", "exit"}
    /\ num_days = 4
    /\ best_move # <<>>
    /\ best_cost = current_cost
    /\ best_schedule = current_schedule
    /\ \E k \in 1 .. Len(neighbors) :
          /\ neighbors[k][2] = best_move[1]
          /\ neighbors[k][1] = current_schedule
          /\ \E i \in 1 .. (k - 1) : CostAt(neighbors, i) < current_cost

\* No value occurs at two positions of q.
NoRepeat(q) == \A i, j \in 1 .. Len(q) : q[i] = q[j] => i = j

\* The least cost over a non-empty sequence of schedules.
MinCostOf(ss) ==
    CHOOSE c \in {calculate_cost(ss[i]) : i \in 1 .. Len(ss)} :
        \A i \in 1 .. Len(ss) : c <= calculate_cost(ss[i])

\* After a pass that selected a candidate: the tabu memory, the current
\* schedule and the best-known cost the pass started with.
PassTabu ==
    SubSeq(appended, Max(1, Len(appended) - TabuMaxLen), Len(appended) - 1)

PassSchedule == visited[Len(visited) - 1]

PassBestCost == MinCostOf(SubSeq(visited, 1, Len(visited) - 1))

\* C12: the move a pass selects is not in the tabu memory the pass started
\* with, whatever its schedule would cost, and the tabu memory never holds
\* the same move at two positions.
C12_TabuNeverSelected ==
    /\ [](NoRepeat(tabu_list))
    /\ [][(pc = "loop" /\ neighbors' # <<>> /\ best_move' # <<>>) =>
             \A i \in 1 .. Len(tabu_list) : tabu_list[i] # best_move'[1]]_vars

\* A pass has selected a candidate although a move of the tabu memory it
\* started with was applicable and led to a schedule costing strictly less
\* than the best-known cost at that time.
C12_Witness ==
    /\ pc \in {"loop", "exit"}
    /\ neighbors # <<>>
    /\ best_move # <<>>
    /\ Len(visited) >= 2
    /\ \E j \in 1 .. Len(PassTabu) :
          /\ Differs(PassSchedule, PassTabu[j])
          /\ PassTabu[j] # best_move[1]
          /\ calculate_cost(Swap(PassSchedule, PassTabu[j])) < PassBestCost

\* s with the cells (move[1], move[2]) and (move[1], move[3]) exchanged.
Exchanged(s, move) ==
    [e \in Range(num_employees) |->
        [d \in Range(num_days) |->
            IF e = move[1] /\ d = move[2] THEN s[e][move[3]]
            ELSE IF e = move[1] /\ d = move[3] THEN s[e][move[2]]
            ELSE s[e][d]]]

\* The moves (e, a, b) with a # b and s[e][a] # s[e][b] that are not in T.
OfferedMoves(s, T) ==
    {move \in AllMoves :
        /\ move[2] # move[3]
        /\ s[move[1]][move[2]] # s[move[1]][move[3]]
        /\ \A i \in 1 .. Len(T) : T[i] # move}

\* C13: for every 0/1 matrix s and tabu memory T, get_neighbors(s) has
\* exactly one entry for each move (e, a, b) with a # b, s[e][a] # s[e][b] and
\* (e, a, b) not in T, and no other entry; the schedule of the entry is s with
\* the cells (e, a) and (e, b) exchanged, and the argument is left as it was.
\* With T empty and every row of s summing to Q there are 2 * E * Q * (D - Q)
\* entries, and the entries for (e, a, b) and (e, b, a) carry equal schedules.
C13_NeighborsExact ==
    pc = "get_neighbors returned" =>
        /\ IsBinaryMatrix(arg)
        /\ \E offered \in {OfferedMoves(arg, tabu_list)} :
              /\ \A move \in offered :
                    Cardinality({i \in 1 .. Len(ret) : ret[i][2] = move}) = 1
              /\ \A i \in 1 .. Len(ret) :
                    /\ ret[i][2] \in offered
                    /\ ret[i][1] = Exchanged(arg, ret[i][2])
        /\ (tabu_list = <<>> /\ QuotaKept(arg)) =>
              /\ Len(ret) = 2 * num_employees * work_days_per_employee
                                * (num_days - work_days_per_employee)
              /\ \A i \in 1 .. Len(ret) :
                    \E j \in 1 .. Len(ret) :
                       /\ ret[j][2] = <<ret[i][2][1], ret[i][2][3], ret[i][2][2]>>
                       /\ ret[j][1] = ret[i][1]

\* get_neighbors has returned a non-empty list for two employees and three
\* days, having left out a move only because the tabu memory holds it.
C13_Witness ==
    /\ pc = "get_neighbors returned"
    /\ num_employees = 2
    /\ num_days = 3
    /\ ret # <<>>
    /\ tabu_list # <<>>
    /\ OfferedMoves(arg, <<>>) # OfferedMoves(arg, tabu_list)

\* get_neighbors has returned 2 * E * Q * (D - Q) > 0 entries for an empty
\* tabu memory and a matrix whose rows all sum to Q.
C13_CountWitness ==
    /\ pc = "get_neighbors returned"
    /\ tabu_list = <<>>
    /\ QuotaKept(arg)
    /\ Len(ret) = 8

\* The reverse-ordered move of (e, a, b) is (e, b, a).
Reverse(move) == <<move[1], move[3], move[2]>>

\* C14: in the pass that follows the application of a move (e, a, b), the
\* move (e, b, a) is among the neighbors exactly if it is not in the tabu
\* memory, and its schedule is the one that was current before (e, a, b) was
\* applied.
C14_ReverseOffered ==
    [][(pc = "loop" /\ iteration >= 1 /\ best_move # <<>>) =>
          \E r \in {Reverse(best_move[1])} :
             /\ tabu_list[Len(tabu_list)] = best_move[1]
             /\ (\E i \in 1 .. Len(neighbors') : neighbors'[i][2] = r)
                   <=> (\A j \in 1 .. Len(tabu_list) : tabu_list[j] # r)
             /\ \A i \in 1 .. Len(neighbors') :
                   neighbors'[i][2] = r =>
                      neighbors'[i][1] = visited[Len(visited) - 1]]_vars

\* Two passes in a row: the second selected the reverse of the move the first
\* applied, and the current schedule is again the one before the first.
C14_Witness ==
    /\ pc \in {"loop", "exit"}
    /\ Len(appended) >= 2
    /\ appended[Len(appended)] = Reverse(appended[Len(appended) - 1])
    /\ current_schedule = visited[Len(visited) - 2]
    /\ current_schedule # visited[Len(visited) - 1]

\* The reverse of the move just applied is in the tabu memory, so the pass
\* that follows does not offer it.
C14_ReverseTabuWitness ==
    /\ pc = "loop"
    /\ best_move # <<>>
    /\ \E j \in 1 .. Len(tabu_list) : tabu_list[j] = Reverse(best_move[1])

\* C15: throughout tabu_search, best_cost is the cost of best_schedule and the
\* least cost over the initial schedule and every schedule that has been
\* current; a pass never increases best_cost, and it changes best_schedule or
\* best_cost only if the candidate it selected costs strictly less than
\* best_cost, in which case that candidate is the new best; the returned cost
\* is best_cost and is at most the cost of the initial schedule.
C15_BestTracking ==
    /\ [](InSearch =>
            /\ best_cost = calculate_cost(best_schedule)
            /\ best_cost = MinCostOf(visited)
            /\ \E i \in 1 .. Len(visited) : visited[i] = best_schedule
            /\ pc = "returned" =>
                  /\ ret = <<best_schedule, best_cost>>
                  /\ ret[2] <= calculate_cost(visited[1]))
    /\ [][pc = "loop" =>
             /\ best_cost' <= best_cost
             /\ (best_cost' # best_cost \/ best_schedule' # best_schedule) =>
                   /\ neighbors' # <<>>
                   /\ best_neighbor_cost' < best_cost
                   /\ best_cost' = best_neighbor_cost'
                   /\ best_schedule' = best_neighbor'[1]]_vars

\* tabu_search has returned a cost strictly below the cost of the initial
\* schedule, after the search had moved on from the best schedule to a
\* costlier one.
C15_Witness ==
    /\ pc = "returned"
    /\ ret[2] < calculate_cost(visited[1])
    /\ best_cost < current_cost
    /\ best_schedule # current_schedule
    /\ Len(visited) >= 3

\* The maximal runs of days off of s: (e, a, b) when employee e is off on the
\* days a .. b and at work, or out of the horizon, on the days a - 1 and b + 1.
OffRuns(s) ==
    {run \in AllMoves :
        /\ run[2] <= run[3]
        /\ \A d \in run[2] .. run[3] : s[run[1]][d] = 0
        /\ (run[2] = 0 \/ s[run[1]][run[2] - 1] = 1)
        /\ (run[3] = num_days - 1 \/ s[run[1]][run[3] + 1] = 1)}

\* One element for each day by which a maximal run exceeds the cap: their
\* number is the sum of max(0, L - C) over the maximal runs.
RunExcess(s) ==
    {x \in AllMoves \X (1 .. num_days) :
        /\ x[1] \in OffRuns(s)
        /\ x[2] <= (x[1][3] - x[1][2] + 1) - max_consecutive_days_off}

\* The cells (e, d) that are off and follow at least C days off in a row.
CellsBeyondCap(s) ==
    {cell \in Range(num_employees) \X Range(num_days) :
        /\ cell[2] >= max_consecutive_days_off
        /\ \A d \in (cell[2] - max_consecutive_days_off) .. cell[2] :
              s[cell[1]][d] = 0}

\* C16: the consecutive-off term of calculate_cost(s) is the sum over the
\* employees' maximal runs of L days off of 10 * max(0, L - C), which is 10
\* times the number of cells that are off and are preceded within their run by
\* at least C days off; the cost returned is that term plus the other two
\* (everything in units of 1/num_days).
C16_ConsecutiveOffTerm ==
    pc = "calculate_cost returned" =>
        /\ ConsecutiveOffPenalty(arg) = 10 * Cardinality(RunExcess(arg))
        /\ ConsecutiveOffPenalty(arg) = 10 * Cardinality(CellsBeyondCap(arg))
        /\ ret = num_days * 10 * Cardinality(CellsBeyondCap(arg))
                   + WorkloadPenalty(arg) + num_days * QuotaPenalty(arg)

\* A cost has been returned for a matrix with a run of three days off under
\* a cap of 1, next to a row that works on the second day.
C16_Witness ==
    /\ pc = "calculate_cost returned"
    /\ num_days = 3
    /\ num_employees = 2
    /\ max_consecutive_days_off = 1
    /\ \A d \in Range(num_days) : arg[0][d] = 0
    /\ arg[1][1] = 1
    /\ Cardinality(CellsBeyondCap(arg)) >= 2

\* C17: a pass whose neighborhood is not empty selects a candidate (the exit
\* of line 90 is not taken), makes it current, and appends its move, and only
\* that, to the tabu memory; after k such passes of a fresh engine the tabu
\* memory holds min(k, 10) moves.
C17_NonEmptySelects ==
    /\ [](InSearch =>
            /\ Len(appended) = iteration
            /\ Len(visited) = iteration + 1
            /\ Len(tabu_list) = Min(iteration, TabuMaxLen))
    /\ [][(pc = "loop" /\ neighbors' # <<>>) =>
             /\ best_neighbor' # <<>>
             /\ best_move' # <<>>
             /\ current_schedule' = best_neighbor'[1]
             /\ visited' = Append(visited, best_neighbor'[1])
             /\ appended' = Append(appended, best_move'[1])
             /\ tabu_list' = SubSeq(appended', Len(appended') - Len(tabu_list') + 1,
                                    Len(appended'))
             /\ iteration' = iteration + 1]_vars

\* The twelfth pass of a search has selected a candidate and the tabu memory
\* holds ten moves, none of them the first or second appended.
C17_Witness ==
    /\ pc \in {"loop", "exit"}
    /\ neighbors # <<>>
    /\ iteration >= TabuMaxLen + 2
    /\ Len(tabu_list) = TabuMaxLen
    /\ tabu_list[TabuMaxLen] = best_move[1]
    /\ current_schedule = best_neighbor[1]

\* The moves that exchange two differing cells of s, tabu or not.
DifferingMoves(s) ==
    {move \in AllMoves :
        move[2] # move[3] /\ s[move[1]][move[2]] # s[move[1]][move[3]]}

\* Every row of every quota-respecting schedule offers more than 10 moves in
\* total: 0 < Q < D and 2 * E * Q * (D - Q) > 10.
MoreMovesThanTabu ==
    /\ ValidConfig
    /\ 0 < work_days_per_employee
    /\ work_days_per_employee < num_days
    /\ 2 * num_employees * work_days_per_employee
          * (num_days - work_days_per_employee) > TabuMaxLen

\* One employee, two days, one work day.
TwoDayInstance ==
    num_employees = 1 /\ num_days = 2 /\ work_days_per_employee = 1

\* C18: the neighborhood a pass computes is empty exactly when every move
\* that exchanges two differing cells of the current schedule is in the tabu
\* memory.  With 0 < Q < D and 2 * E * Q * (D - Q) > 10 no pass finds it
\* empty and the loop ends after exactly max_iterations passes; with E = 1,
\* D = 2, Q = 1 the loop ends after two passes whatever the budget, on an
\* empty neighborhood if the budget is larger.
C18_EmptyNeighborhood ==
    /\ [][pc = "loop" =>
             (neighbors' = <<>> <=>
                 \A move \in DifferingMoves(current_schedule) :
                    \E i \in 1 .. Len(tabu_list) : tabu_list[i] = move)]_vars
    /\ [][(pc = "loop" /\ MoreMovesThanTabu) =>
             Len(neighbors') >= 2 * num_employees * work_days_per_employee
                                   * (num_days - work_days_per_employee)
                                - TabuMaxLen]_vars
    /\ []((pc \in {"exit", "returned"} /\ MoreMovesThanTabu) =>
             iteration = max_iterations)
    /\ []((pc \in {"exit", "returned"} /\ TwoDayInstance) =>
             /\ iteration = Min(max_iterations, 2)
             /\ max_iterations > 2 =>
                   /\ neighbors = <<>>
                   /\ DifferingMoves(current_schedule) # {}
                   /\ \A move \in DifferingMoves(current_schedule) :
                         \E i \in 1 .. Len(tabu_list) : tabu_list[i] = move)

\* The two-day instance has left the loop after two passes of a larger budget:
\* both moves of its schedule are tabu.
C18_Witness ==
    /\ pc = "exit"
    /\ TwoDayInstance
    /\ iteration = 2
    /\ max_iterations > 2
    /\ neighbors = <<>>
    /\ Len(tabu_list) = 2

\* An instance with more than 10 moves per schedule has run the whole budget,
\* which is larger than the tabu memory.
C18_FullBudgetWitness ==
    /\ pc = "exit"
    /\ MoreMovesThanTabu
    /\ max_iterations > TabuMaxLen
    /\ iteration = max_iterations
    /\ Len(tabu_list) = TabuMaxLen
    /\ neighbors # <<>>

====
